---- MODULE Spec2Model ----
(***************************************************************************)
(* A model of fine_tune_ner.py: the model-name table, the per-family       *)
(* classification run, the cross-model recap and the main loop, over a     *)
(* file system of directories and files.                                   *)
(*                                                                         *)
(* Strings are sequences of tokens: a token is a separator ("/", "_",      *)
(* ".") or a piece of text that holds no separator, so that split, replace *)
(* and the substring test are computed on the names, not assumed.          *)
(*                                                                         *)
(* Spec is main(): runs of the whole program, each to its end or to a      *)
(* crash, restarted on the working directory the last one left.            *)
(* SpecCalls is the functions called one by one (get_model_name,           *)
(* get_model_args, classification with the arguments main gives it,        *)
(* recap_evaluation with its table inside or outside the results root).    *)
(***************************************************************************)
EXTENDS Integers, Sequences, FiniteSets, TLC

\* ------------------------------------------------------------------ bounds
\* Runs of main over the same working directory (a crash or an end, then a restart).
MaxRuns == 2
\* Calls the function-level harness makes (classification, recap_evaluation).
MaxCalls == 3
\* Token rows of the test table, and the sentence ids they may carry.
MaxTokens == 2
\* Prediction sequences the adapter may return.
MaxPreds == 2

\* ----------------------------------------------------------------- strings
\* The tokens of s after its last sep: s.split(sep)[-1].
RECURSIVE SplitLast(_, _)
SplitLast(s, sep) ==
    IF s = <<>> THEN <<>>
    ELSE IF \E i \in 1..Len(s) : s[i] = sep
         THEN SplitLast(Tail(s), sep)
         ELSE s

\* The tokens of s before its first sep: s.split(sep)[0].
RECURSIVE SplitFirst(_, _)
SplitFirst(s, sep) ==
    IF s = <<>> THEN <<>>
    ELSE IF Head(s) = sep THEN <<>>
         ELSE <<Head(s)>> \o SplitFirst(Tail(s), sep)

\* s.replace(old, new), old and new single tokens.
Replace(s, old, new) == [i \in 1..Len(s) |-> IF s[i] = old THEN new ELSE s[i]]

\* sub in s, sub a single token.
Contains(s, sub) == \E i \in 1..Len(s) : s[i] = sub

\* os.path.join(dir, name), and "{}/{}".format(dir, name).
Join(dir, name) == dir \o <<"/">> \o name

\* ----------------------------------------------------------- model names
model_types == <<"bert", "distilbert", "roberta", "distilroberta", "electra", "xlnet">>

ModelTypeSet == {model_types[i] : i \in 1..Len(model_types)}

\* Keys main never passes; get_model_name takes any string.
OtherKeys == {"gpt2", ""}

\* get_model_name with distilroberta kept as its own family.
get_model_name_keepfamily(model_type) ==
    CASE model_type = "bert" ->
            [type |-> model_type, name |-> <<"bert-base-cased">>, err |-> "none"]
      [] model_type = "roberta" ->
            [type |-> model_type, name |-> <<"roberta-base">>, err |-> "none"]
      [] model_type = "distilbert" ->
            [type |-> model_type, name |-> <<"distilbert-base-cased">>, err |-> "none"]
      [] model_type = "distilroberta" ->
            [type |-> model_type, name |-> <<"distilroberta-base">>, err |-> "none"]
      [] model_type = "electra" ->
            [type |-> model_type,
             name |-> <<"google", "/", "electra-base-discriminator">>, err |-> "none"]
      [] model_type = "xlnet" ->
            [type |-> model_type, name |-> <<"xlnet-base-cased">>, err |-> "none"]
      [] OTHER ->
            [type |-> model_type, name |-> <<>>, err |-> "UnboundLocalError"]

\* (model_type, model_name); on a key of no branch model_name is never assigned
\* and the return statement raises UnboundLocalError.
get_model_name(model_type) ==
    CASE model_type = "bert" ->
            [type |-> model_type, name |-> <<"bert-base-cased">>, err |-> "none"]
      [] model_type = "roberta" ->
            [type |-> model_type, name |-> <<"roberta-base">>, err |-> "none"]
      [] model_type = "distilbert" ->
            [type |-> model_type, name |-> <<"distilbert-base-cased">>, err |-> "none"]
      [] model_type = "distilroberta" ->
            [type |-> "roberta", name |-> <<"distilroberta-base">>, err |-> "none"]
      [] model_type = "electra" ->
            [type |-> model_type,
             name |-> <<"google", "/", "electra-base-discriminator">>, err |-> "none"]
      [] model_type = "xlnet" ->
            [type |-> model_type, name |-> <<"xlnet-base-cased">>, err |-> "none"]
      [] OTHER ->
            [type |-> model_type, name |-> <<>>, err |-> "UnboundLocalError"]

\* The NERArgs bundle; the error of get_model_name propagates.
get_model_args(model_type) ==
    LET r == get_model_name(model_type)
        model_name == SplitLast(r.name, "/")
    IN  IF r.err # "none"
        THEN [err |-> r.err, output_dir |-> <<>>, best_model_dir |-> <<>>]
        ELSE [err |-> "none",
              output_dir |-> Join(<<"outputs">>, model_name),
              best_model_dir |-> Join(Join(<<"outputs">>, model_name), <<"best", "_", "model">>)]

\* ------------------------------------------------------------ file system
\* The parent directories of path p, nearest last.
Ancestors(p) == {SubSeq(p, 1, i - 1) : i \in {j \in 1..Len(p) : p[j] = "/"}}

\* The entry names of directory d among the paths ps.
Entries(d, ps) ==
    {SubSeq(p, Len(d) + 2, Len(p)) :
        p \in {q \in ps : /\ Len(q) > Len(d) + 1
                          /\ SubSeq(q, 1, Len(d)) = d
                          /\ q[Len(d) + 1] = "/"
                          /\ ~Contains(SubSeq(q, Len(d) + 2, Len(q)), "/")}}

ResultsRoot == <<"ner_results">>
OverallIn == Join(ResultsRoot, <<"overall", "_", "evaluation", ".", "csv">>)
OverallOut == <<"overall", "_", "evaluation", ".", "csv">>

\* "{}/<prefix>_{}.csv".format(output_dir, model_name)
ArtifactPath(output_dir, prefix, model_name) ==
    Join(output_dir, prefix \o <<"_">> \o model_name \o <<".", "csv">>)

Prefixes == [cm |-> <<"cm">>, prediction |-> <<"prediction">>,
             confusion |-> <<"confusion", "_", "matrix">>,
             evaluation |-> <<"evaluation", "_", "score">>]

\* File contents.  by/run: the family and the run that wrote an artifact; rows:
\* the rows of a table; complete: the write that made the file ran to its end.
Artifact(by, run) ==
    [kind |-> "artifact", by |-> by, run |-> run, rows |-> <<>>, complete |-> TRUE]
Table(rows) ==
    [kind |-> "table", by |-> "", run |-> 0, rows |-> rows, complete |-> TRUE]
StatFile ==
    [kind |-> "stat", by |-> "", run |-> 0, rows |-> <<>>, complete |-> TRUE]
Partial(content) == [content EXCEPT !.complete = FALSE]

NoFiles == [p \in {} |-> StatFile]

\* ---------------------------------------------------------------- dataset
\* A test table: token rows, each with its sentence id.
TestTables ==
    UNION {[1..n -> [sentence_id : 1..MaxTokens, labels : {"O"}]] : n \in 0..MaxTokens}

\* The test table of the harness: one token, one sentence.
HarnessTestTable == <<[sentence_id |-> 1, labels |-> "O"]>>

\* What the adapter's eval_model may return: one entry per predicted sentence.
PredLists == {[i \in 1..n |-> <<"O">>] : n \in 0..MaxPreds}

\* test_df.groupby('sentence_id')['words', 'labels'].agg(list): the label lists
\* by sentence id.
GroupBySentence(df) ==
    [s \in {df[i].sentence_id : i \in 1..Len(df)} |->
        SelectSeq(df, LAMBDA row : row.sentence_id = s)]

check_test_data(df, preds) ==
    LET y_test == GroupBySentence(df)
    IN  Len(preds) = Cardinality(DOMAIN y_test)

\* evaluation.build_pred_df: the Prediction Reconciler, which fails with
\* EvaluationMismatch when the sentence count and the prediction count differ.
build_pred_df(df, preds) ==
    IF Len(preds) = Cardinality(DOMAIN GroupBySentence(df))
    THEN "none" ELSE "EvaluationMismatch"

\* ------------------------------------------------------------------ state
VARIABLES
    pc,           \* the position of the running code; "idle": the harness, between calls
    err,          \* the exception that ended the last run or call, "none" without one
    caller,       \* "main": main() runs; "harness": the functions are called one by one
    runNo,        \* the number of the run of main, or of the harness's call
    dirs,         \* the directories that exist (paths)
    files,        \* the files that exist: path -> content
    idx,          \* main's position in model_types
    family,       \* the key of model_types being processed
    model_type,   \* classification's model_type
    model_name,   \* classification's model_name
    output_dir,   \* classification's output_dir
    test_csv,     \* dataset/test.csv, as it is on disk
    test_df,      \* the loaded test table
    preds_list,   \* the adapter's predictions on the test table
    filename,     \* recap_evaluation's filename
    todo,         \* recap_evaluation's files, from the one the loop is at
    ret,          \* what the last direct call of get_model_name / get_model_args gave
    snap,         \* history: the files as they were when the current family began
    startedEmpty, \* history: this run began with neither outputs nor ner_results
    histK,        \* history: recap calls with main's arguments since the last classification
    histBase      \* history: the rows of the overall table at the last classification

vars == <<pc, err, caller, runNo, dirs, files, test_csv, idx, family, model_type, model_name,
          output_dir, test_df, preds_list, filename, todo, ret, snap, startedEmpty,
          histK, histBase>>

locals == <<family, model_type, model_name, output_dir, test_df, preds_list>>
hist == <<histK, histBase>>

NoRet == [op |-> "none", key |-> "", type |-> "", name |-> <<>>, err |-> "none"]

\* An exception leaves main (the run ends) or returns to the harness.
Raise(e) ==
    /\ pc' = IF caller = "main" THEN "crashed" ELSE "unwind"
    /\ err' = e

Rows(fn) == IF fn \in DOMAIN files THEN files[fn].rows ELSE <<>>

\* --------------------------------------------------------- classification
\* Lines 65-74: the arguments, the adapter's model, and the results directory
\* of the model, made (with its parents) when it does not exist.
ClsInit ==
    /\ pc = "cls_init"
    /\ LET model_args == get_model_args(model_type)
           dir == Replace(model_args.output_dir, "outputs", "ner_results")
       IN  IF model_args.err # "none"
           THEN /\ Raise(model_args.err)
                /\ UNCHANGED <<dirs, output_dir>>
           ELSE /\ output_dir' = dir
                /\ dirs' = IF dir \notin dirs /\ dir \notin DOMAIN files
                           THEN dirs \cup {dir} \cup Ancestors(dir)
                           ELSE dirs
                /\ pc' = "cls_train"
                /\ err' = err
    /\ UNCHANGED <<caller, test_csv, runNo, files, idx, family, model_type, model_name, test_df,
                   preds_list, filename, todo, ret, snap, startedEmpty, hist>>

\* Lines 76-81: training, and the evaluation on the dev table (the adapter's own
\* state and its outputs/ directory are not modelled).
ClsTrain ==
    /\ pc = "cls_train"
    /\ pc' = "cls_eval"
    /\ UNCHANGED <<err, caller, test_csv, runNo, dirs, files, idx, locals, filename, todo, ret,
                   snap, startedEmpty, hist>>

\* Lines 82-86: the evaluation on the test table; the adapter gives the predictions.
ClsEval ==
    /\ pc = "cls_eval"
    /\ \E p \in PredLists : preds_list' = p
    /\ pc' = "cls_pred"
    /\ UNCHANGED <<err, caller, test_csv, runNo, dirs, files, idx, family, model_type, model_name,
                   output_dir, test_df, filename, todo, ret, snap, startedEmpty, hist>>

\* ClsBuildPred going on whatever build_pred_df said.
ClsBuildPred_unchecked ==
    /\ pc = "cls_pred"
    /\ model_name' = SplitLast(model_name, "/")
    /\ pc' = "cls_cm"
    /\ UNCHANGED <<err, caller, test_csv, runNo, dirs, files, idx, family, model_type, output_dir,
                   test_df, preds_list, filename, todo, ret, snap, startedEmpty, hist>>

\* Lines 88-89: the name the artifacts carry, and the prediction table with its
\* confusion matrix.
ClsBuildPred ==
    /\ pc = "cls_pred"
    /\ model_name' = SplitLast(model_name, "/")
    /\ LET e == build_pred_df(test_df, preds_list)
       IN  IF e # "none"
           THEN Raise(e)
           ELSE pc' = "cls_cm" /\ err' = err
    /\ UNCHANGED <<caller, test_csv, runNo, dirs, files, idx, family, model_type, output_dir,
                   test_df, preds_list, filename, todo, ret, snap, startedEmpty, hist>>

\* The artifact a write step of classification makes, by the step's position.
ClsKind == [cls_cm |-> "cm", cls_prediction |-> "prediction",
            cls_confusion |-> "confusion", cls_score |-> "evaluation"]
ClsNext == [cls_cm |-> "cls_prediction", cls_prediction |-> "cls_confusion",
            cls_confusion |-> "cls_score", cls_score |-> "cls_return"]
ClsTarget == ArtifactPath(output_dir, Prefixes[ClsKind[pc]], model_name)

\* to_csv(path): the file is written when its directory exists.
ClsWriteStep(at) ==
    /\ pc = at
    /\ IF Ancestors(ClsTarget) \subseteq dirs
       THEN /\ files' = (ClsTarget :> Artifact(family, runNo)) @@ files
            /\ pc' = ClsNext[pc]
            /\ err' = err
       ELSE /\ Raise("OSError")
            /\ files' = files
    /\ UNCHANGED <<caller, test_csv, runNo, dirs, idx, locals, filename, todo, ret, snap,
                   startedEmpty, hist>>

\* Lines 90-91.
ClsWriteCm == ClsWriteStep("cls_cm")
\* Lines 92-93.
ClsWritePred == ClsWriteStep("cls_prediction")

\* Lines 94-97: the confusion matrix read back from cm_*.csv, normalised, written.
ClsWriteConf ==
    /\ pc = "cls_confusion"
    /\ IF ArtifactPath(output_dir, Prefixes.cm, model_name) \in DOMAIN files
       THEN /\ files' = (ClsTarget :> Artifact(family, runNo)) @@ files
            /\ pc' = ClsNext[pc]
            /\ err' = err
       ELSE /\ Raise("FileNotFoundError")
            /\ files' = files
    /\ UNCHANGED <<caller, test_csv, runNo, dirs, idx, locals, filename, todo, ret, snap,
                   startedEmpty, hist>>

\* Lines 98-100.
ClsWriteEval == ClsWriteStep("cls_score")

\* classification returns: to main, which calls recap_evaluation('ner_results',
\* 'ner_results/overall_evaluation.csv') (line 159), or to the harness.
ClsReturn ==
    /\ pc = "cls_return"
    /\ IF caller = "main"
       THEN pc' = "recap_list" /\ filename' = OverallIn
       ELSE pc' = "unwind" /\ filename' = filename
    /\ UNCHANGED <<err, caller, test_csv, runNo, dirs, files, idx, locals, todo, ret, snap,
                   startedEmpty, hist>>

\* -------------------------------------------------------- recap_evaluation
\* The orders os.listdir may give the entries of a set.
Orders(S) ==
    {s \in [1..Cardinality(S) -> S] : \A i, j \in 1..Cardinality(S) : s[i] = s[j] => i = j}

AllPaths == dirs \cup DOMAIN files

\* [os.path.join(dir, file) for file in os.listdir(dir) if 'evaluation' in file]
EvaluationFiles(dir) ==
    {Join(dir, file) : file \in {f \in Entries(dir, AllPaths) : Contains(f, "evaluation")}}

\* RecapList passing over the entries of the root that are no directories.
RecapList_skipfiles ==
    /\ pc = "recap_list"
    /\ IF ResultsRoot \notin dirs
       THEN Raise("FileNotFoundError") /\ todo' = todo
       ELSE LET ds == {Join(ResultsRoot, folder) : folder \in Entries(ResultsRoot, AllPaths)}
            IN  /\ \E order \in Orders(ds \cap dirs) :
                       todo' = [i \in 1..Len(order) |-> EvaluationFiles(order[i])]
                /\ pc' = "recap_row"
                /\ err' = err
    /\ UNCHANGED <<caller, test_csv, runNo, dirs, files, idx, locals, filename, ret, snap,
                   startedEmpty, hist>>

\* Lines 104-108: the entries of the results root, each listed as a directory; an
\* entry that is a file makes os.listdir raise NotADirectoryError.
RecapList ==
    /\ pc = "recap_list"
    /\ IF ResultsRoot \notin dirs
       THEN Raise("FileNotFoundError") /\ todo' = todo
       ELSE LET ds == {Join(ResultsRoot, folder) : folder \in Entries(ResultsRoot, AllPaths)}
            IN  IF ~(ds \subseteq dirs)
                THEN Raise("NotADirectoryError") /\ todo' = todo
                ELSE /\ \E order \in Orders(ds) :
                            todo' = [i \in 1..Len(order) |-> EvaluationFiles(order[i])]
                     /\ pc' = "recap_row"
                     /\ err' = err
    /\ UNCHANGED <<caller, test_csv, runNo, dirs, files, idx, locals, filename, ret, snap,
                   startedEmpty, hist>>

\* Line 110: file.split('/')[-1].split('.')[0].split('_')[-1]
ParseModelName(file) == SplitLast(SplitFirst(SplitLast(file, "/"), "."), "_")

\* Lines 110-120: the row of one evaluation file: the model named by the file's
\* name, and the scores the file holds (told apart by who wrote them, and when).
RowDict(file) ==
    [model |-> ParseModelName(file), by |-> files[file].by, run |-> files[file].run]

\* The overall table that keeps only the new row.
NewTable_overwrite(file) == <<RowDict(file)>>

\* Lines 123-130: the overall table after the row of file is added: read and
\* extended when it exists, made of the one row when not.
NewTable(file) ==
    IF filename \in DOMAIN files
    THEN files[filename].rows \o <<RowDict(file)>>
    ELSE <<RowDict(file)>>

\* Lines 109-130: one turn of the loop `for [file] in files`.
RecapRow ==
    /\ pc = "recap_row"
    /\ IF todo = <<>>
       THEN /\ pc' = "recap_read"
            /\ UNCHANGED <<err, files, todo>>
       ELSE IF Cardinality(Head(todo)) # 1
            THEN /\ Raise("ValueError")
                 /\ UNCHANGED <<files, todo>>
            ELSE LET file == CHOOSE f \in Head(todo) : TRUE
                 IN  /\ files' = (filename :> Table(NewTable(file))) @@ files
                     /\ todo' = Tail(todo)
                     /\ pc' = "recap_row"
                     /\ err' = err
    /\ UNCHANGED <<caller, test_csv, runNo, dirs, idx, locals, filename, ret, snap,
                   startedEmpty, hist>>

\* Lines 132-133: the overall table read back and returned; main goes on to the
\* next model type.
RecapRead ==
    /\ pc = "recap_read"
    /\ IF filename \notin DOMAIN files
       THEN Raise("FileNotFoundError") /\ idx' = idx
       ELSE /\ pc' = IF caller = "main" THEN "loop" ELSE "unwind"
            /\ idx' = IF caller = "main" THEN idx + 1 ELSE idx
            /\ err' = err
    /\ UNCHANGED <<caller, test_csv, runNo, dirs, files, locals, filename, todo, ret, snap,
                   startedEmpty, hist>>

\* ------------------------------------------------------------------- main
Dataset == <<"dataset">>
StatPaths == {Join(Dataset, <<split, "_", "stat", ".", "csv">>) :
                split \in {"train", "dev", "test"}}

\* Lines 140-142: both directories are made when outputs does not exist;
\* os.makedirs raises FileExistsError on a directory that exists.
Setup ==
    /\ pc = "setup"
    /\ IF <<"outputs">> \notin dirs
       THEN IF ResultsRoot \in dirs
            THEN /\ dirs' = dirs \cup {<<"outputs">>}
                 /\ Raise("FileExistsError")
            ELSE /\ dirs' = dirs \cup {<<"outputs">>, ResultsRoot}
                 /\ pc' = "loop"
                 /\ err' = err
       ELSE /\ dirs' = dirs
            /\ pc' = "loop"
            /\ err' = err
    /\ UNCHANGED <<caller, test_csv, runNo, files, idx, locals, filename, todo, ret, snap,
                   startedEmpty, hist>>

\* Lines 144-158: the next model type, its names, the dataset loaded, the label
\* statistics written, and classification called; the run ends after the last.
LoopHead ==
    /\ pc = "loop"
    /\ IF idx > Len(model_types)
       THEN /\ pc' = "done"
            /\ UNCHANGED <<err, files, locals, snap>>
       ELSE LET r == get_model_name(model_types[idx])
            IN  /\ family' = model_types[idx]
                /\ IF r.err # "none"
                   THEN /\ Raise(r.err)
                        /\ UNCHANGED <<files, model_type, model_name, test_df, snap>>
                   ELSE /\ model_type' = r.type
                        /\ model_name' = r.name
                        /\ test_df' = test_csv
                        /\ files' = [p \in StatPaths |-> StatFile] @@ files
                        /\ snap' = files
                        /\ pc' = "cls_init"
                        /\ err' = err
                /\ UNCHANGED <<output_dir, preds_list>>
    /\ UNCHANGED <<caller, test_csv, runNo, dirs, idx, filename, todo, ret, startedEmpty, hist>>

Running == pc \notin {"setup", "idle", "unwind", "done", "crashed"}

\* The process ends between two statements: the adapter fails, or it is killed.
Kill ==
    /\ caller = "main"
    /\ Running
    /\ pc' = "crashed"
    /\ err' = "Killed"
    /\ UNCHANGED <<caller, test_csv, runNo, dirs, files, idx, locals, filename, todo, ret, snap,
                   startedEmpty, hist>>

\* The process ends inside a to_csv: the file is there, cut short.
KillMidWrite ==
    /\ caller = "main"
    /\ \/ /\ pc \in DOMAIN ClsKind
          /\ Ancestors(ClsTarget) \subseteq dirs
          /\ files' = (ClsTarget :> Partial(Artifact(family, runNo))) @@ files
       \/ /\ pc = "recap_row"
          /\ todo # <<>>
          /\ Cardinality(Head(todo)) = 1
          /\ LET rows == NewTable(CHOOSE f \in Head(todo) : TRUE)
             IN  \E n \in 0..(Len(rows) - 1) :
                    files' = (filename :> Partial(Table(SubSeq(rows, 1, n)))) @@ files
    /\ pc' = "crashed"
    /\ err' = "Killed"
    /\ UNCHANGED <<caller, test_csv, runNo, dirs, idx, locals, filename, todo, ret, snap,
                   startedEmpty, hist>>

\* main is run again on the working directory the last run left.
Restart ==
    /\ caller = "main"
    /\ pc \in {"done", "crashed"}
    /\ runNo < MaxRuns
    /\ runNo' = runNo + 1
    /\ pc' = "setup"
    /\ err' = "none"
    /\ idx' = 1
    /\ family' = ""
    /\ model_type' = ""
    /\ model_name' = <<>>
    /\ output_dir' = <<>>
    /\ test_df' = <<>>
    /\ preds_list' = <<>>
    /\ todo' = <<>>
    /\ snap' = NoFiles
    /\ startedEmpty' = FALSE
    /\ filename' = <<>>
    /\ UNCHANGED <<caller, test_csv, dirs, files, ret, hist>>

\* The working directory main may find: the dataset, and outputs and
\* ner_results each there (empty) or not.
Init ==
    /\ pc = "setup"
    /\ err = "none"
    /\ caller = "main"
    /\ runNo = 1
    /\ \E o \in SUBSET {<<"outputs">>, ResultsRoot} :
          /\ dirs = {Dataset} \cup o
          /\ startedEmpty = (o = {})
    /\ files = NoFiles
    /\ test_csv \in TestTables
    /\ idx = 1
    /\ family = ""
    /\ model_type = ""
    /\ model_name = <<>>
    /\ output_dir = <<>>
    /\ test_df = <<>>
    /\ preds_list = <<>>
    /\ filename = <<>>
    /\ todo = <<>>
    /\ ret = NoRet
    /\ snap = NoFiles
    /\ histK = 0
    /\ histBase = 0

Classification ==
    \/ ClsInit \/ ClsTrain \/ ClsEval \/ ClsBuildPred
    \/ ClsWriteCm \/ ClsWritePred \/ ClsWriteConf \/ ClsWriteEval \/ ClsReturn

Recap == RecapList \/ RecapRow \/ RecapRead

Next ==
    \/ Setup \/ LoopHead \/ Classification \/ Recap
    \/ Kill \/ KillMidWrite \/ Restart

\* Runs of main, each to its end or to a crash, one after the other.
Spec == Init /\ [][Next]_vars

\* ---------------------------------------------------------------- harness
\* The functions called one by one, each call run to its return or its exception.

\* Lines 146-158 for one model type: get_model_name, the dataset, classification.
CallClassification(key) ==
    /\ caller = "harness"
    /\ pc = "idle"
    /\ runNo < MaxCalls
    /\ runNo' = runNo + 1
    /\ LET r == get_model_name(key)
       IN  /\ family' = key
           /\ model_type' = r.type
           /\ model_name' = r.name
    /\ test_df' = test_csv
    /\ preds_list' = <<>>
    /\ output_dir' = <<>>
    /\ todo' = <<>>
    /\ pc' = "cls_init"
    /\ err' = "none"
    /\ histK' = 0
    /\ histBase' = Len(Rows(OverallIn))
    /\ UNCHANGED <<caller, test_csv, dirs, files, idx, filename, ret, snap, startedEmpty>>

\* recap_evaluation('ner_results', fn).
CallRecap(fn) ==
    /\ caller = "harness"
    /\ pc = "idle"
    /\ runNo < MaxCalls
    /\ runNo' = runNo + 1
    /\ filename' = fn
    /\ todo' = <<>>
    /\ pc' = "recap_list"
    /\ err' = "none"
    /\ histK' = IF fn = OverallIn THEN histK + 1 ELSE histK
    /\ UNCHANGED <<caller, test_csv, dirs, files, idx, locals, ret, snap, startedEmpty,
                   histBase>>

CallGetModelName(key) ==
    /\ caller = "harness"
    /\ pc = "idle"
    /\ LET r == get_model_name(key)
       IN  ret' = [op |-> "get_model_name", key |-> key, type |-> r.type,
                   name |-> r.name, err |-> r.err]
    /\ pc' = "unwind"
    /\ UNCHANGED <<err, caller, test_csv, runNo, dirs, files, idx, locals, filename, todo,
                   snap, startedEmpty, hist>>

CallGetModelArgs(key) ==
    /\ caller = "harness"
    /\ pc = "idle"
    /\ LET a == get_model_args(key)
       IN  ret' = [op |-> "get_model_args", key |-> key, type |-> "",
                   name |-> a.output_dir, err |-> a.err]
    /\ pc' = "unwind"
    /\ UNCHANGED <<err, caller, test_csv, runNo, dirs, files, idx, locals, filename, todo,
                   snap, startedEmpty, hist>>

\* The call is over, by a return or by an exception: its locals and what it
\* returned are gone.
Unwind ==
    /\ caller = "harness"
    /\ pc = "unwind"
    /\ pc' = "idle"
    /\ family' = ""
    /\ model_type' = ""
    /\ model_name' = <<>>
    /\ output_dir' = <<>>
    /\ test_df' = <<>>
    /\ preds_list' = <<>>
    /\ filename' = <<>>
    /\ todo' = <<>>
    /\ ret' = NoRet
    /\ UNCHANGED <<err, caller, test_csv, runNo, dirs, files, idx, snap, startedEmpty, hist>>

InitCalls ==
    /\ pc = "idle"
    /\ err = "none"
    /\ caller = "harness"
    /\ runNo = 0
    /\ dirs = {Dataset}
    /\ startedEmpty = TRUE
    /\ files = NoFiles
    /\ test_csv = HarnessTestTable
    /\ idx = 1
    /\ family = ""
    /\ model_type = ""
    /\ model_name = <<>>
    /\ output_dir = <<>>
    /\ test_df = <<>>
    /\ preds_list = <<>>
    /\ filename = <<>>
    /\ todo = <<>>
    /\ ret = NoRet
    /\ snap = NoFiles
    /\ histK = 0
    /\ histBase = 0

NextCalls ==
    \/ \E key \in ModelTypeSet : CallClassification(key)
    \/ \E fn \in {OverallIn, OverallOut} : CallRecap(fn)
    \/ \E key \in ModelTypeSet \cup OtherKeys : CallGetModelName(key)
    \/ \E key \in ModelTypeSet \cup OtherKeys : CallGetModelArgs(key)
    \/ Classification
    \/ Recap
    \/ Unwind

\* Any sequence of calls of the functions, on a working directory that holds
\* the dataset only.
SpecCalls == InitCalls /\ [][NextCalls]_vars

\* ----------------------------------------------------------------- claims
\* The directory a file is in.
Parent(p) == SubSeq(p, 1, (CHOOSE i \in 1..Len(p) :
                              p[i] = "/" /\ \A j \in (i + 1)..Len(p) : p[j] # "/") - 1)

IsPrefix(a, b) == Len(a) <= Len(b) /\ SubSeq(b, 1, Len(a)) = a

\* The last path segment of the pretrained identifier of a model type.
OwnName(key) == SplitLast(get_model_name(key).name, "/")
OwnDir(key) == Join(ResultsRoot, OwnName(key))

ArtifactPaths == {p \in DOMAIN files : files[p].kind = "artifact"}

\* The subdirectories of the results root.
Subdirs == {Join(ResultsRoot, e) : e \in Entries(ResultsRoot, dirs)}

\* C1: for each of the six model types get_model_name gives a pretrained
\* identifier that is not empty; for distilroberta the family is "roberta" and
\* the identifier is not "roberta-base"; for the others the family is the key.
C1_ModelNames ==
    (ret.op = "get_model_name" /\ ret.key \in ModelTypeSet) =>
        /\ ret.err = "none"
        /\ ret.name # <<>>
        /\ ret.key = "distilroberta" =>
              (ret.type = "roberta" /\ ret.name # <<"roberta-base">>)
        /\ ret.key # "distilroberta" => ret.type = ret.key

C1_Witness ==
    /\ ret.op = "get_model_name"
    /\ ret.key = "distilroberta"
    /\ ret.type = "roberta"
    /\ ret.name = <<"distilroberta-base">>

\* C2: on a key outside the six, get_model_name and get_model_args fail with
\* UnsupportedModelType.
C2_UnsupportedModelType ==
    (ret.op # "none" /\ ret.key \notin ModelTypeSet) => ret.err = "UnsupportedModelType"

\* C3: every artifact is in the results subdirectory named after the last path
\* segment of its own family's pretrained identifier, and no subdirectory holds
\* the artifacts of two families.
C3_OwnSubdirectory ==
    /\ \A p \in ArtifactPaths : Parent(p) = OwnDir(files[p].by)
    /\ \A p, q \in ArtifactPaths : Parent(p) = Parent(q) => files[p].by = files[q].by

\* C4: after k calls of recap_evaluation with main's arguments over n unchanged
\* model subdirectories, each with its one evaluation file, the overall table
\* holds k*n rows more than before.
C4_RowsPerCall ==
    (/\ caller = "harness"
     /\ pc = "idle"
     /\ \A d \in Subdirs : Cardinality(EvaluationFiles(d)) = 1)
    => Len(Rows(OverallIn)) = histBase + histK * Cardinality(Subdirs)

\* C5: a step of recap_evaluation on an overall table that exists leaves every
\* row of it in place, in order, the new rows after them.
C5_AppendOnly ==
    [][\A fn \in {OverallIn, OverallOut} :
          fn \in DOMAIN files =>
              /\ fn \in DOMAIN files'
              /\ IsPrefix(files[fn].rows, files'[fn].rows)]_vars

\* A call of recap_evaluation has added a model's row to the table of an
\* earlier call, which holds that row already.
C5_Witness ==
    /\ pc = "recap_read"
    /\ filename \in DOMAIN files
    /\ Len(files[filename].rows) >= 2
    /\ files[filename].rows[1] = files[filename].rows[2]

\* The places of classification after build_pred_df, and of the recap that follows.
PastReconciler == {"cls_cm", "cls_prediction", "cls_confusion", "cls_score", "cls_return",
                   "recap_list", "recap_row", "recap_read"}

\* The family at hand has an artifact of this run on disk.
Persisted ==
    \E p \in ArtifactPaths : files[p].by = family /\ files[p].run = runNo

\* C6: when the sentences of the test table and the prediction sequences differ
\* in number, the family's evaluation never gets past the reconciler and none of
\* its artifacts is written; the run ends with EvaluationMismatch.
C6_MismatchFails ==
    /\ ~check_test_data(test_df, preds_list) => (pc \notin PastReconciler /\ ~Persisted)
    /\ (pc = "crashed" /\ err = "EvaluationMismatch") =>
          (~check_test_data(test_df, preds_list) /\ ~Persisted)

C6_Witness ==
    /\ pc = "crashed"
    /\ err = "EvaluationMismatch"
    /\ Len(preds_list) # Cardinality({test_df[i].sentence_id : i \in 1..Len(test_df)})
    /\ ~Persisted

\* The families whose turn of main's loop is over in this run.
Completed == {model_types[i] : i \in 1..(idx - 1)}

\* C7: whatever happens while main is at family k, every artifact of the
\* families completed before k in this run is on disk complete and as it was
\* when k began, and so is every row the recap recorded for them.
C7_CompletedUntouched ==
    caller = "main" =>
        /\ \A p \in DOMAIN snap :
              (snap[p].kind = "artifact" /\ snap[p].by \in Completed /\ snap[p].run = runNo)
              => (p \in DOMAIN files /\ files[p] = snap[p] /\ files[p].complete)
        /\ \A p \in DOMAIN snap :
              snap[p].kind = "table" =>
                 \A i \in 1..Len(snap[p].rows) :
                    (snap[p].rows[i].by \in Completed /\ snap[p].rows[i].run = runNo)
                    => /\ p \in DOMAIN files
                       /\ i <= Len(files[p].rows)
                       /\ files[p].rows[i] = snap[p].rows[i]

\* main was killed inside a write of its second family, the first one complete
\* and its row recorded.
C7_Witness ==
    /\ pc = "crashed"
    /\ err = "Killed"
    /\ idx = 2
    /\ \E p \in ArtifactPaths : files[p].by = family /\ ~files[p].complete
    /\ \E p \in DOMAIN snap : snap[p].kind = "artifact" /\ snap[p].by = model_types[1]
                               /\ snap[p].run = runNo
    /\ OverallIn \in DOMAIN snap
    /\ Len(snap[OverallIn].rows) = 1

\* C8: when main calls recap_evaluation, every entry of the results root is a
\* directory with exactly one file whose name contains "evaluation", and the
\* model parsed from that name is the last path segment of the pretrained
\* identifier of the family that wrote it.
C8_RootHoldsModelDirs ==
    (caller = "main" /\ pc = "recap_list") =>
        \A e \in Entries(ResultsRoot, AllPaths) :
            LET d == Join(ResultsRoot, e)
            IN  /\ d \in dirs
                /\ Cardinality(EvaluationFiles(d)) = 1
                /\ \A f \in EvaluationFiles(d) : ParseModelName(f) = OwnName(files[f].by)

\* C9: a run of main from a working directory with the dataset only, in which
\* the adapter and the evaluation helpers do not fail, does not end in an
\* exception.
C9_RunCompletes ==
    (startedEmpty /\ caller = "main" /\ pc = "crashed")
    => err \in {"Killed", "EvaluationMismatch"}

\* C10: whichever of outputs and ner_results exist, main's directory setup ends
\* without an exception, and an artifact is only ever in a directory that exists.
C10_SetupSucceeds ==
    /\ ~(pc = "crashed" /\ err = "FileExistsError")
    /\ \A p \in ArtifactPaths : Parent(p) \in dirs

====
